---- MODULE Spec2Model ----
(***************************************************************************)
(* Model of fmb/fmb_ic_plus.py: the FMBICPlusHost serial bus driver (one    *)
(* RLock around write-then-read exchanges) and the FMBICPlusChannel         *)
(* measurement state machine with its detached averaging thread.           *)
(*                                                                         *)
(* Numbers that Python holds as floats are exact rationals here            *)
(* ([num, den] in lowest terms, NaN is 0/0); currents are in nanoamperes   *)
(* (1 nA = 1e6 fA), so that RangeEnum.max() fits a 32-bit integer.         *)
(* Channel commands (start, stop, attribute reads) are atomic steps: the    *)
(* device server runs one command of a device at a time; the measurement   *)
(* thread and the bus exchange are split at every point where they wait.   *)
(***************************************************************************)
EXTENDS Integers, Sequences, FiniteSets, TLC

(* ------------------------------ bounds --------------------------------- *)
\* measurement threads one channel may have alive at once (start() is not modelled beyond it)
MaxLoops == 2
\* successful cycles after which the exposition time of a loop has elapsed
MaxCycles == 1
\* the same for the single-loop averaging specification SpecAvg
AvgCycles == 5
\* concurrent callers of host commands in SpecBus
NumCallers == 2
\* seconds a loop's clock counts before it stops counting
MaxTicks == 3
\* longest byte stream the device sends in SpecQuery
MaxStream == 4
\* how far beyond the limits the arguments of the fit functions go in SpecFit
FitSpan == 3

(* ------------------------ program constants ---------------------------- *)
MAX_CHANNELS == 15
FULL_SCALE == 262144000
ACK == 6
LF == 10
STX == 2
DIGIT0 == 48
MIN_VOLTAGE == 0
MAX_VOLTAGE == 1700
MIN_OFFSET == 0
MAX_OFFSET == 99

(* ------------------------- exact rationals ----------------------------- *)
RECURSIVE Gcd(_, _)
Gcd(a, b) == IF b = 0 THEN a ELSE Gcd(b, a % b)

Abs(n) == IF n < 0 THEN -n ELSE n

\* n/d in lowest terms, d > 0
Frac(n, d) ==
    LET g == Gcd(Abs(n), d)
    IN  [num |-> n \div g, den |-> d \div g]

FracInt(n) == [num |-> n, den |-> 1]

FracAdd(x, y) ==
    LET g == Gcd(x.den, y.den)
    IN  Frac(x.num * (y.den \div g) + y.num * (x.den \div g), x.den * (y.den \div g))

\* x / k for an integer k > 0
FracDiv(x, k) ==
    LET g == Gcd(Abs(x.num), k)
    IN  [num |-> x.num \div g, den |-> x.den * (k \div g)]

\* math.nan
NaN == [num |-> 0, den |-> 0]

RECURSIVE FracSum(_)
FracSum(s) == IF s = <<>> THEN FracInt(0) ELSE FracAdd(Head(s), FracSum(Tail(s)))

(* ---------------------------- RangeEnum -------------------------------- *)
RECURSIVE Pow10(_)
Pow10(n) == IF n = 0 THEN 1 ELSE 10 * Pow10(n - 1)

\* RangeEnum.max(): 1e6 * 10^r fA, here in nA
RangeMax(r) == Pow10(r)

\* RangeEnum.to_amperes(): max / 262144000 * raw (fA * 1e-15), here in nA.
\* raw / 262144000 is reduced before the product so that no integer overflows.
ToAmperes(r, raw) ==
    LET f == Frac(raw, FULL_SCALE)
        g == Gcd(RangeMax(r), f.den)
    IN  [num |-> (RangeMax(r) \div g) * f.num, den |-> f.den \div g]

(* ------------------------- fit_*_range --------------------------------- *)
\* Python's min(a, b) and max(a, b) on integers: a unless b is smaller (larger)
IntMin(a, b) == IF b < a THEN b ELSE a
IntMax(a, b) == IF b > a THEN b ELSE a

fit_voltage_range_no_floor(high_voltage) == IntMin(high_voltage, MAX_VOLTAGE)

fit_voltage_range(high_voltage) ==
    IntMax(IntMin(high_voltage, MAX_VOLTAGE), MIN_VOLTAGE)

fit_offset_range(offset) ==
    IntMax(IntMin(offset, MAX_OFFSET), MIN_OFFSET)

\* a float number of seconds: whole seconds and nanoseconds (0..999999999),
\* or nan, inf, -inf
Seconds(s, ns) == [kind |-> "num", s |-> s, ns |-> ns]
NaNTime == [kind |-> "nan", s |-> 0, ns |-> 0]
PlusInf == [kind |-> "inf", s |-> 0, ns |-> 0]
MinusInf == [kind |-> "-inf", s |-> 0, ns |-> 0]
ZeroTime == Seconds(0, 0)

\* a < b on floats: every comparison with nan is false
TimeLess(a, b) ==
    CASE a.kind = "nan" \/ b.kind = "nan" -> FALSE
      [] a.kind = "inf" \/ b.kind = "-inf" -> FALSE
      [] a.kind = "-inf" \/ b.kind = "inf" -> TRUE
      [] OTHER -> a.s < b.s \/ (a.s = b.s /\ a.ns < b.ns)

TimeMin(a, b) == IF TimeLess(b, a) THEN b ELSE a
TimeMax(a, b) == IF TimeLess(a, b) THEN b ELSE a

MIN_EXPOSITION_TIME == Seconds(0, 1000)
MAX_EXPOSITION_TIME == Seconds(24 * 60 * 60, 0)

fit_exp_time_range(exposition_time) ==
    TimeMax(TimeMin(exposition_time, MAX_EXPOSITION_TIME), MIN_EXPOSITION_TIME)

(* ------------------------------ state ---------------------------------- *)
VARIABLES
    lock,           \* FMBICPlusHost._lock: the thread inside query(), or NoOwner
    wire,           \* commands written to the port whose response has not been read yet
    hostState,      \* the Tango state of the FMBICPlusHost device
    pc,             \* position of every thread
    req,            \* the host command a thread is executing
    ret,            \* what the last host command of a caller returned
    state,          \* the Tango state of each FMBICPlusChannel
    _stop,          \* FMBICPlusChannel._stop
    _current,       \* FMBICPlusChannel._current
    _raw_current,   \* FMBICPlusChannel._raw_current
    _range,         \* FMBICPlusChannel._range
    result,         \* __measure's local result, per measurement thread
    result_raw,     \* __measure's local result_raw
    cycles,         \* __measure's local cycles
    got,            \* history: the valid raw counts a loop's measure calls returned
    stopped,        \* history: stop() was accepted from RUNNING while the loop was alive
    lastOp,         \* history: the step just taken and how it ended
    qStream,        \* SpecQuery: bytes the device sends in answer to one command
    qExpect,        \* SpecQuery: data_expected
    qResult,        \* SpecQuery: what query() returned
    _high_voltage,  \* FMBICPlusChannel._high_voltage
    _offset,        \* FMBICPlusChannel._offset
    _exposition_time, \* FMBICPlusChannel._exposition_time
    job,            \* the command or setter a client of a channel is inside, and its stage
    elapsed,        \* clock ticks since start_time, per measurement thread (SpecLive)
    fitArg,         \* SpecFit: the arguments given to the fit_* functions
    fitRes          \* SpecFit: what they returned

vars == <<lock, wire, hostState, pc, req, ret, state, _stop, _current, _raw_current,
          _range, result, result_raw, cycles, got, stopped, lastOp,
          qStream, qExpect, qResult,
          _high_voltage, _offset, _exposition_time, job, elapsed, fitArg, fitRes>>

busVars == <<lock, wire, hostState>>
chanVars == <<state, _stop, _current, _raw_current, _range>>
loopVars == <<result, result_raw, cycles, got, stopped, elapsed>>
queryVars == <<qStream, qExpect, qResult>>
setVars == <<_high_voltage, _offset, _exposition_time, job>>
fitVars == <<fitArg, fitRes>>

(* ----------------------------- threads --------------------------------- *)
\* FMBICPlusChannel.address (device property)
address == 0
Channels == {address}

LoopThreads == {<<"loop", c, i>> : c \in Channels, i \in 1..MaxLoops}
AvgThreads == {<<"loop", address, 1>>}
Callers == {<<"call", k, 0>> : k \in 1..NumCallers}
Clients == {<<"client", c, 0>> : c \in Channels}
Threads == LoopThreads \cup Callers \cup Clients
NoOwner == <<"free", 0, 0>>

ChanOf(t) == t[2]

(* ------------------------ FMBICPlusHost.query -------------------------- *)
\* results of a call: a returned integer, None, or a raised exception
Value(v) == [kind |-> "value", val |-> v]
None == [kind |-> "None", val |-> 0]
Raised(e) == [kind |-> e, val |-> 0]

\* a host command either passes one command to query() or returns at once
Query(verb, ch, arg, data_expected, giveback) ==
    [send |-> TRUE, verb |-> verb, addr |-> ch, arg |-> arg,
     expect |-> data_expected, giveback |-> giveback, dflt |-> None]
NoQuery(dflt) ==
    [send |-> FALSE, verb |-> "", addr |-> 0, arg |-> 0,
     expect |-> FALSE, giveback |-> FALSE, dflt |-> dflt]
NoReq == NoQuery(None)

\* serial.Serial.readline(): the bytes up to and including the first LF,
\* or all that arrived before the timeout
RECURSIVE ReadLine(_)
ReadLine(s) ==
    IF s = <<>> THEN <<>>
    ELSE IF Head(s) = LF THEN <<LF>>
    ELSE <<Head(s)>> \o ReadLine(Tail(s))

\* serial.Serial.read(): at most one byte
ReadByte(s) == IF s = <<>> THEN <<>> ELSE <<Head(s)>>

IsDigit(b) == b >= DIGIT0 /\ b <= DIGIT0 + 9

RECURSIVE Decimal(_)
Decimal(s) == IF s = <<>> THEN 0 ELSE 10 * Decimal(SubSeq(s, 1, Len(s) - 1)) + (s[Len(s)] - DIGIT0)

\* int(answer[1:-1]): the decimal number between the first and the last byte
ParseInt(answer) ==
    LET mid == SubSeq(answer, 2, Len(answer) - 1)
    IN  IF \A k \in 1..Len(mid) : IsDigit(mid[k])
        THEN Value(Decimal(mid))
        ELSE Raised("ValueError")

QueryResultShortLine(answer, data_expected) ==
    IF ((Len(answer) < 2 /\ data_expected) \/ (answer # <<ACK>> /\ ~data_expected))
       \/ answer = <<>>
    THEN Value(-1)
    ELSE IF data_expected THEN ParseInt(answer) ELSE Value(0)

\* the check of the answer and the value query() returns
QueryResult(answer, data_expected) ==
    IF ((Len(answer) < 3 /\ data_expected) \/ (answer # <<ACK>> /\ ~data_expected))
       \/ answer = <<>>
    THEN Value(-1)
    ELSE IF data_expected THEN ParseInt(answer) ELSE Value(0)

\* the except clause of query(): a serial error becomes DevFailed
QueryRaise == Raised("DevFailed")

AcquireUnlocked(t) == TRUE

\* self._lock.acquire() returns
CanAcquire(t) == lock = NoOwner \/ lock = t

ReleaseOnReturnOnly(t, outcome) == IF outcome.kind = "DevFailed" THEN t ELSE NoOwner

\* the finally clause of query(): the owner of the lock after query() is left
LockAfterQuery(t, outcome) == NoOwner

(* --------------------- FMBICPlusHost commands -------------------------- *)
ValidChannel(ch) == 0 <= ch /\ ch <= MAX_CHANNELS

read_voltage(ch) ==
    IF ValidChannel(ch) THEN Query(":CONF:VOLT?", ch, 0, TRUE, TRUE) ELSE NoQuery(Value(-1))

write_voltage(ch, voltage) ==
    IF ValidChannel(ch) /\ MIN_VOLTAGE <= voltage /\ voltage <= MAX_VOLTAGE
    THEN Query(":CONF:VOLT", ch, voltage, FALSE, FALSE) ELSE NoQuery(None)

read_range(ch) ==
    IF ValidChannel(ch) THEN Query(":CONF:CURR:RANG?", ch, 0, TRUE, TRUE) ELSE NoQuery(Value(-1))

write_range(ch, rng) == Query(":CONF:CURR:RANG", ch, rng, FALSE, FALSE)

read_offset(ch) ==
    IF ValidChannel(ch) THEN Query(":CONF:CURR:OFFS?", ch, 0, TRUE, TRUE) ELSE NoQuery(Value(-1))

write_offset(ch, offset) ==
    IF ValidChannel(ch) /\ MIN_OFFSET <= offset /\ offset < MAX_OFFSET
    THEN Query(":CONF:CURR:OFFS", ch, offset, FALSE, FALSE) ELSE NoQuery(None)

host_reset(ch) == Query("*RST", ch, 0, FALSE, FALSE)

\* the second argument only extends the read timeout
measure(ch, execution_time) ==
    IF ValidChannel(ch) THEN Query(":READ:CURR?", ch, 0, TRUE, TRUE) ELSE NoQuery(Value(-1))

HostOps == {"read_voltage", "write_voltage", "read_range", "write_range",
            "read_offset", "write_offset", "reset", "measure"}

HostCommand(op, ch, arg) ==
    CASE op = "read_voltage" -> read_voltage(ch)
      [] op = "write_voltage" -> write_voltage(ch, arg)
      [] op = "read_range" -> read_range(ch)
      [] op = "write_range" -> write_range(ch, arg)
      [] op = "read_offset" -> read_offset(ch)
      [] op = "write_offset" -> write_offset(ch, arg)
      [] op = "reset" -> host_reset(ch)
      [] op = "measure" -> measure(ch, arg)

\* what the host command hands back once query() has returned
CommandReturn(r, outcome) ==
    IF outcome.kind = "value" /\ ~r.giveback THEN None ELSE outcome

(* ------------------- the exchange inside query() ----------------------- *)
\* the record of a step: what was done, on which channel, the channel state it
\* found, whether it raised, and (for the end of a loop) the cycles it logged
Step(op, c, pre, err) == [op |-> op, c |-> c, pre |-> pre, err |-> err, n |-> 0]

\* lock.acquire() and port.write() succeed: the command is on the wire
QueryWrite(t) ==
    /\ CanAcquire(t)
    /\ lock' = t
    /\ wire' = Append(wire, [by |-> t, verb |-> req[t].verb, addr |-> req[t].addr,
                             arg |-> req[t].arg])
    /\ UNCHANGED hostState

\* port.write() raises SerialException: FAULT on the host, the lock is left
QueryWriteFails(t) ==
    /\ CanAcquire(t)
    /\ lock' = LockAfterQuery(t, QueryRaise)
    /\ hostState' = "FAULT"
    /\ UNCHANGED wire

\* readline() / read() returns `answer`: the response leaves the wire, the
\* answer is checked and the lock is left
QueryRead(t, outcome) ==
    /\ lock' = LockAfterQuery(t, outcome)
    /\ wire' = Tail(wire)
    /\ hostState' = IF outcome = QueryRaise THEN "FAULT" ELSE hostState

\* answers the port gives a reading thread in the bus and channel specifications
Line(digits) == <<STX>> \o digits \o <<LF>>
RECURSIVE Ascii(_)
Ascii(n) == IF n < 10 THEN <<DIGIT0 + n>> ELSE Ascii(n \div 10) \o <<DIGIT0 + (n % 10)>>

\* a read that times out with nothing, a line that is no number, lines with a raw count
Timeout == <<>>
Garbage == <<STX, 120, LF>>
HalfScale == Line(Ascii(FULL_SCALE \div 2))
OneCount == Line(Ascii(1))
SpecAnswers == {Timeout, Garbage, HalfScale}
LiveAnswers == {Timeout, HalfScale}
AvgAnswers == {Timeout, OneCount, HalfScale}
BusAnswers == {Timeout, <<ACK>>, Garbage, Line(Ascii(12))}

(* ------------------- FMBICPlusChannel commands ------------------------- *)
Alive(t) == pc[t] # "none"
Polling(t) == pc[t] \in {"while", "call", "wrote"}
LoopsOf(c) == {t \in LoopThreads : ChanOf(t) = c}
FreeSlots(c, maxLoops) == {i \in 1..maxLoops : pc[<<"loop", c, i>>] = "none"}
Min(S) == CHOOSE x \in S : \A y \in S : x <= y

StartAllowedUnlessFault(st) == st # "FAULT"

\* the state in which start() is allowed
StartAllowed(st) == st = "ON"

\* the else branch of every command and setter: FAULT, then DevFailed
Rejected(c) == state' = [state EXCEPT ![c] = "FAULT"]

start(c, maxLoops) ==
    /\ IF StartAllowed(state[c])
       THEN /\ FreeSlots(c, maxLoops) # {}
            /\ _stop' = [_stop EXCEPT ![c] = FALSE]
            /\ pc' = [pc EXCEPT ![<<"loop", c, Min(FreeSlots(c, maxLoops))>>] = "spawned"]
            /\ UNCHANGED state
       ELSE /\ Rejected(c)
            /\ UNCHANGED <<_stop, pc>>
    /\ lastOp' = Step("start", c, state[c], ~StartAllowed(state[c]))
    /\ UNCHANGED <<busVars, req, ret, _current, _raw_current, _range, loopVars, queryVars, setVars, fitVars>>

AlreadyStoppedNever(st) == FALSE

\* the elif branch of stop(): the device is already stopped
AlreadyStopped(st) == st = "ON"

stop(c) ==
    /\ IF state[c] = "RUNNING"
       THEN /\ _stop' = [_stop EXCEPT ![c] = TRUE]
            /\ state' = [state EXCEPT ![c] = "ON"]
            /\ stopped' = [t \in LoopThreads |->
                             stopped[t] \/ (ChanOf(t) = c /\ Polling(t))]
       ELSE IF AlreadyStopped(state[c])
       THEN /\ _stop' = [_stop EXCEPT ![c] = TRUE]
            /\ UNCHANGED <<state, stopped>>
       ELSE /\ Rejected(c)
            /\ UNCHANGED <<_stop, stopped>>
    /\ lastOp' = Step("stop", c, state[c], state[c] \notin {"RUNNING", "ON"})
    /\ UNCHANGED <<busVars, pc, req, ret, _current, _raw_current, _range,
                   result, result_raw, cycles, got, elapsed, queryVars, setVars, fitVars>>

\* the getters of high_voltage, range, offset and exposition_time
ReadSetting(c) ==
    /\ IF state[c] \in {"ON", "RUNNING"} THEN UNCHANGED state ELSE Rejected(c)
    /\ lastOp' = Step("read", c, state[c], state[c] \notin {"ON", "RUNNING"})
    /\ UNCHANGED <<busVars, pc, req, ret, _stop, _current, _raw_current, _range,
                   loopVars, queryVars, setVars, fitVars>>

\* the getters of current and raw_current: nan instead of DevFailed
ReadMeasured(c) ==
    /\ IF state[c] \in {"ON", "RUNNING"}
       THEN UNCHANGED state
       ELSE state' = [state EXCEPT ![c] = "FAULT"]
    /\ lastOp' = Step("measured", c, state[c], FALSE)
    /\ UNCHANGED <<busVars, pc, req, ret, _stop, _current, _raw_current, _range,
                   loopVars, queryVars, setVars, fitVars>>

(* -------------------- FMBICPlusChannel.__measure ----------------------- *)
NoLocals(t) ==
    /\ result' = [result EXCEPT ![t] = FracInt(0)]
    /\ result_raw' = [result_raw EXCEPT ![t] = 0]
    /\ cycles' = [cycles EXCEPT ![t] = 0]
    /\ got' = [got EXCEPT ![t] = <<>>]
    /\ stopped' = [stopped EXCEPT ![t] = FALSE]
    /\ elapsed' = [elapsed EXCEPT ![t] = 0]

\* the thread runs: locals are zero, the state becomes RUNNING
LoopBegin(t) ==
    /\ pc[t] = "spawned"
    /\ pc' = [pc EXCEPT ![t] = "while"]
    /\ state' = [state EXCEPT ![ChanOf(t)] = "RUNNING"]
    /\ lastOp' = Step("begin", ChanOf(t), state[ChanOf(t)], FALSE)
    /\ UNCHANGED <<busVars, req, ret, _stop, _current, _raw_current, _range,
                   loopVars, queryVars, setVars, fitVars>>

MeanCurrentOrZero(sum, n) == IF n > 0 THEN FracDiv(sum, n) ELSE FracInt(0)

\* result / cycles and result_raw / cycles, or nan and -1
MeanCurrent(sum, n) == IF n > 0 THEN FracDiv(sum, n) ELSE NaN
MeanRaw(sum, n) == IF n > 0 THEN Frac(sum, n) ELSE FracInt(-1)

\* the state the loop leaves the channel in when it ends without an exception
StateAfterLoop(st) == "ON"

\* the exposition time has elapsed or _stop is set: the results are stored
LoopExit(t) ==
    /\ pc[t] = "while"
    /\ pc' = [pc EXCEPT ![t] = "none"]
    /\ _current' = [_current EXCEPT ![ChanOf(t)] = MeanCurrent(result[t], cycles[t])]
    /\ _raw_current' = [_raw_current EXCEPT ![ChanOf(t)] = MeanRaw(result_raw[t], cycles[t])]
    /\ _stop' = [_stop EXCEPT ![ChanOf(t)] = FALSE]
    /\ state' = [state EXCEPT ![ChanOf(t)] = StateAfterLoop(state[ChanOf(t)])]
    /\ NoLocals(t)
    /\ lastOp' = [Step("exit", ChanOf(t), state[ChanOf(t)], FALSE) EXCEPT !.n = cycles[t]]
    /\ UNCHANGED <<busVars, req, ret, _range, queryVars, setVars, fitVars>>

\* the loop goes on (time is left, which lasts for at most maxCycles cycles,
\* and _stop is clear): self._host.measure() is called
LoopMeasure(t, maxCycles) ==
    /\ pc[t] = "while"
    /\ ~_stop[ChanOf(t)]
    /\ cycles[t] < maxCycles
    /\ LET r == measure(ChanOf(t), 0)
       IN  /\ pc' = [pc EXCEPT ![t] = IF r.send THEN "call" ELSE "while"]
           /\ req' = [req EXCEPT ![t] = IF r.send THEN r ELSE NoReq]
    /\ lastOp' = Step("measure", ChanOf(t), state[ChanOf(t)], FALSE)
    /\ UNCHANGED <<busVars, ret, chanVars, loopVars, queryVars, setVars, fitVars>>

\* the exceptions the try block of the loop handles
LoopCatches(outcome) == outcome.kind = "SerialException"

\* an exception leaves the try block: the thread ends, with FAULT if it is caught
LoopDies(t, outcome) ==
    /\ pc' = [pc EXCEPT ![t] = "none"]
    /\ req' = [req EXCEPT ![t] = NoReq]
    /\ state' = IF LoopCatches(outcome)
                THEN [state EXCEPT ![ChanOf(t)] = "FAULT"]
                ELSE state
    /\ NoLocals(t)
    /\ lastOp' = Step(outcome.kind, ChanOf(t), state[ChanOf(t)], TRUE)
    /\ UNCHANGED <<ret, _stop, _current, _raw_current, _range, queryVars, setVars, fitVars>>

SkippedNever(iter) == FALSE

\* measure() returned -1
Skipped(iter) == iter = -1

\* measure() returned iter: the sums and the cycle count of the loop
LoopTakes(t, iter) ==
    /\ pc' = [pc EXCEPT ![t] = "while"]
    /\ req' = [req EXCEPT ![t] = NoReq]
    /\ IF Skipped(iter)
       THEN UNCHANGED <<result, result_raw, cycles>>
       ELSE /\ result' = [result EXCEPT ![t] =
                            FracAdd(result[t], ToAmperes(_range[ChanOf(t)], iter))]
            /\ result_raw' = [result_raw EXCEPT ![t] = result_raw[t] + iter]
            /\ cycles' = [cycles EXCEPT ![t] = cycles[t] + 1]
    /\ got' = [got EXCEPT ![t] =
                 IF iter >= 0
                 THEN Append(got[t], [raw |-> iter, rng |-> _range[ChanOf(t)]])
                 ELSE got[t]]
    /\ lastOp' = Step("took", ChanOf(t), state[ChanOf(t)], FALSE)
    /\ UNCHANGED <<ret, chanVars, stopped, queryVars, setVars, fitVars>>

LoopWrite(t) ==
    /\ pc[t] = "call"
    /\ QueryWrite(t)
    /\ pc' = [pc EXCEPT ![t] = "wrote"]
    /\ lastOp' = Step("write", ChanOf(t), state[ChanOf(t)], FALSE)
    /\ UNCHANGED <<req, ret, chanVars, loopVars, queryVars, setVars, fitVars>>

LoopWriteFails(t) ==
    /\ pc[t] = "call"
    /\ QueryWriteFails(t)
    /\ LoopDies(t, QueryRaise)

LoopRead(t, answers) ==
    /\ pc[t] = "wrote"
    /\ \E answer \in answers :
         LET outcome == CommandReturn(req[t], QueryResult(answer, req[t].expect))
         IN  /\ QueryRead(t, outcome)
             /\ IF outcome.kind = "value"
                THEN LoopTakes(t, outcome.val) /\ UNCHANGED elapsed
                ELSE LoopDies(t, outcome)

LoopReadFails(t) ==
    /\ pc[t] = "wrote"
    /\ QueryRead(t, QueryRaise)
    /\ LoopDies(t, QueryRaise)

(* ------------------- the loop and the wall clock ----------------------- *)
\* a <= b on floats
TimeLeq(a, b) == TimeLess(a, b) \/ (a.kind # "nan" /\ a = b)

\* the clock of a loop counts whole seconds since start_time and stops
\* counting at MaxTicks, beyond every exposition time that is set
Tick(n) == IF n < MaxTicks THEN n + 1 ELSE n

StillExposingAlways(t) == TRUE

\* the condition of the while loop
StillExposing(t) == TimeLeq(Seconds(elapsed[t], 0), _exposition_time[ChanOf(t)])

\* the condition is false, or it is true and _stop is set: out of the loop
TimedExit(t) ==
    /\ ~StillExposing(t) \/ _stop[ChanOf(t)]
    /\ LoopExit(t)

TimedMeasure(t) ==
    /\ StillExposing(t)
    /\ LoopMeasure(t, MaxTicks + 1)

\* measure() returns: the exchange has taken time
TimedRead(t, answers) ==
    /\ pc[t] = "wrote"
    /\ \E answer \in answers :
         LET outcome == CommandReturn(req[t], QueryResult(answer, req[t].expect))
         IN  /\ QueryRead(t, outcome)
             /\ outcome.kind = "value"
             /\ LoopTakes(t, outcome.val)
             /\ elapsed' = [elapsed EXCEPT ![t] = Tick(elapsed[t])]

\* the steps of a measurement thread when the port does not fail
LoopStep(t) ==
    \/ LoopBegin(t)
    \/ TimedExit(t)
    \/ TimedMeasure(t)
    \/ LoopWrite(t)
    \/ TimedRead(t, LiveAnswers)

(* ------------------ callers of the host's commands --------------------- *)
BusChannels == {0, MAX_CHANNELS + 1}
BusArgs == {5}

\* a client invokes a command of the host
CallerInvoke(t) ==
    /\ pc[t] = "idle"
    /\ \E op \in HostOps, ch \in BusChannels, arg \in BusArgs :
         LET r == HostCommand(op, ch, arg)
         IN  /\ pc' = [pc EXCEPT ![t] = IF r.send THEN "call" ELSE "idle"]
             /\ req' = [req EXCEPT ![t] = IF r.send THEN r ELSE NoReq]
             /\ ret' = [ret EXCEPT ![t] = r.dflt]
             /\ lastOp' = Step(op, ch, "", FALSE)
    /\ UNCHANGED <<busVars, chanVars, loopVars, queryVars, setVars, fitVars>>

CallerReturns(t, outcome) ==
    /\ pc' = [pc EXCEPT ![t] = "idle"]
    /\ req' = [req EXCEPT ![t] = NoReq]
    /\ ret' = [ret EXCEPT ![t] = outcome]
    /\ lastOp' = Step("return", req[t].addr, "", outcome.kind \notin {"value", "None"})
    /\ UNCHANGED <<chanVars, loopVars, queryVars, setVars, fitVars>>

CallerWrite(t) ==
    /\ pc[t] = "call"
    /\ QueryWrite(t)
    /\ pc' = [pc EXCEPT ![t] = "wrote"]
    /\ lastOp' = Step("write", req[t].addr, "", FALSE)
    /\ UNCHANGED <<req, ret, chanVars, loopVars, queryVars, setVars, fitVars>>

CallerWriteFails(t) ==
    /\ pc[t] = "call"
    /\ QueryWriteFails(t)
    /\ CallerReturns(t, QueryRaise)

CallerRead(t, answers) ==
    /\ pc[t] = "wrote"
    /\ \E answer \in answers :
         LET outcome == CommandReturn(req[t], QueryResult(answer, req[t].expect))
         IN  /\ QueryRead(t, outcome)
             /\ CallerReturns(t, outcome)

CallerReadFails(t) ==
    /\ pc[t] = "wrote"
    /\ QueryRead(t, QueryRaise)
    /\ CallerReturns(t, QueryRaise)

(* ---------------------- query() on one answer -------------------------- *)
QueryBytes == {ACK, LF, DIGIT0 + 1, DIGIT0 + 2, 120}
Streams == UNION {[1..n -> QueryBytes] : n \in 0..MaxStream}
Pending == [kind |-> "pending", val |-> 0]

\* what the port hands to query() out of the bytes the device sent
PortRead(stream, data_expected) ==
    IF data_expected THEN ReadLine(stream) ELSE ReadByte(stream)

ApplyQuery ==
    /\ qResult = Pending
    /\ qResult' = QueryResult(PortRead(qStream, qExpect), qExpect)
    /\ UNCHANGED <<busVars, pc, req, ret, chanVars, loopVars, lastOp, qStream, qExpect,
                   setVars, fitVars>>

(* ---------------- setters and reset of FMBICPlusChannel ---------------- *)
\* the setter or command a client is inside and the host command it waits for
NoJob == [op |-> "", stage |-> ""]
Client(c) == <<"client", c, 0>>

SetterAllowedWhileRunning(st) == st \in {"ON", "RUNNING"}

\* the state in which the setters and reset() are allowed
SetterAllowed(st) == st = "ON"

\* RangeEnum(value): ValueError unless value is one of the six members
IsRangeEnum(value) == value \in 0..5

StoredRangeRaw(answer) == answer

\* the range get_ic_chamber_parameters() makes of the answer to read_range
StoredRange(answer) == answer - 1

WireRangeRaw(range) == range

\* the number range.write passes to write_range for the wire
WireRange(range) == range + 1

\* the client calls host command `stage`: into query(), or straight back
ClientCalls(t, r, op, stage) ==
    /\ pc' = [pc EXCEPT ![t] = IF r.send THEN "call" ELSE "idle"]
    /\ req' = [req EXCEPT ![t] = IF r.send THEN r ELSE NoReq]
    /\ job' = [job EXCEPT ![ChanOf(t)] =
                 IF r.send THEN [op |-> op, stage |-> stage] ELSE NoJob]

\* high_voltage.write
set_high_voltage(c, high_voltage) ==
    /\ pc[Client(c)] = "idle"
    /\ IF SetterAllowed(state[c])
       THEN /\ _high_voltage' = [_high_voltage EXCEPT ![c] = fit_voltage_range(high_voltage)]
            /\ ClientCalls(Client(c), write_voltage(c, high_voltage),
                           "high_voltage", "write_voltage")
            /\ UNCHANGED state
       ELSE /\ Rejected(c)
            /\ UNCHANGED <<_high_voltage, pc, req, job>>
    /\ lastOp' = Step("high_voltage", c, state[c], ~SetterAllowed(state[c]))
    /\ UNCHANGED <<busVars, ret, _stop, _current, _raw_current, _range, loopVars,
                   queryVars, _offset, _exposition_time, fitVars>>

\* range.write: RangeEnum(range) raises ValueError before anything is done
set_range(c, range) ==
    /\ pc[Client(c)] = "idle"
    /\ IF SetterAllowed(state[c])
       THEN /\ IF IsRangeEnum(range)
               THEN /\ _range' = [_range EXCEPT ![c] = range]
                    /\ ClientCalls(Client(c), write_range(c, WireRange(range)),
                                   "range", "write_range")
               ELSE UNCHANGED <<_range, pc, req, job>>
            /\ UNCHANGED state
       ELSE /\ Rejected(c)
            /\ UNCHANGED <<_range, pc, req, job>>
    /\ lastOp' = Step("range", c, state[c],
                      ~SetterAllowed(state[c]) \/ ~IsRangeEnum(range))
    /\ UNCHANGED <<busVars, ret, _stop, _current, _raw_current, loopVars,
                   queryVars, _high_voltage, _offset, _exposition_time, fitVars>>

\* offset.write: write_offset, which sends nothing for an offset it refuses,
\* then read_offset
set_offset(c, offset) ==
    /\ pc[Client(c)] = "idle"
    /\ IF SetterAllowed(state[c])
       THEN /\ _offset' = [_offset EXCEPT ![c] = fit_offset_range(offset)]
            /\ IF write_offset(c, offset).send
               THEN ClientCalls(Client(c), write_offset(c, offset), "offset", "write_offset")
               ELSE ClientCalls(Client(c), read_offset(c), "offset", "read_offset")
            /\ UNCHANGED state
       ELSE /\ Rejected(c)
            /\ UNCHANGED <<_offset, pc, req, job>>
    /\ lastOp' = Step("offset", c, state[c], ~SetterAllowed(state[c]))
    /\ UNCHANGED <<busVars, ret, _stop, _current, _raw_current, _range, loopVars,
                   queryVars, _high_voltage, _exposition_time, fitVars>>

\* exposition_time.write
set_exposition_time(c, exposition_time) ==
    /\ pc[Client(c)] = "idle"
    /\ IF SetterAllowed(state[c])
       THEN /\ _exposition_time' = [_exposition_time EXCEPT ![c] =
                                      fit_exp_time_range(exposition_time)]
            /\ UNCHANGED state
       ELSE /\ Rejected(c)
            /\ UNCHANGED _exposition_time
    /\ lastOp' = Step("exposition_time", c, state[c], ~SetterAllowed(state[c]))
    /\ UNCHANGED <<busVars, pc, req, ret, _stop, _current, _raw_current, _range, loopVars,
                   queryVars, _high_voltage, _offset, job, fitVars>>

\* FMBICPlusChannel.reset(): the host's reset, then get_ic_chamber_parameters()
reset(c) ==
    /\ pc[Client(c)] = "idle"
    /\ IF SetterAllowed(state[c])
       THEN /\ ClientCalls(Client(c), host_reset(c), "reset", "reset")
            /\ UNCHANGED state
       ELSE /\ Rejected(c)
            /\ UNCHANGED <<pc, req, job>>
    /\ lastOp' = Step("reset", c, state[c], ~SetterAllowed(state[c]))
    /\ UNCHANGED <<busVars, ret, _stop, _current, _raw_current, _range, loopVars,
                   queryVars, _high_voltage, _offset, _exposition_time, fitVars>>

\* the exception that ends the setter or reset() when the host command has
\* returned `outcome`, or "" if it goes on
ClientRaises(j, outcome) ==
    IF outcome.kind \notin {"value", "None"} THEN outcome.kind
    ELSE IF j.stage = "read_range" /\ ~IsRangeEnum(StoredRange(outcome.val)) THEN "ValueError"
    ELSE ""

\* the host command that follows the one that returned, "" after the last one
NextStage(j) ==
    CASE j.stage = "write_offset" -> "read_offset"
      [] j.stage = "reset" -> "read_voltage"
      [] j.stage = "read_voltage" -> "read_range"
      [] j.stage = "read_range" -> "read_offset"
      [] OTHER -> ""

\* the host command returned: the value read is stored and the next command called
ClientReturns(t, outcome) ==
    LET c == ChanOf(t)
        j == job[c]
        raises == ClientRaises(j, outcome)
        next == IF raises # "" THEN "" ELSE NextStage(j)
    IN  /\ ret' = [ret EXCEPT ![t] = outcome]
        /\ IF next = ""
           THEN /\ pc' = [pc EXCEPT ![t] = "idle"]
                /\ req' = [req EXCEPT ![t] = NoReq]
                /\ job' = [job EXCEPT ![c] = NoJob]
           ELSE ClientCalls(t, HostCommand(next, c, 0), j.op, next)
        /\ _high_voltage' = IF raises = "" /\ j.stage = "read_voltage"
                            THEN [_high_voltage EXCEPT ![c] = outcome.val]
                            ELSE _high_voltage
        /\ _range' = IF raises = "" /\ j.stage = "read_range"
                     THEN [_range EXCEPT ![c] = StoredRange(outcome.val)]
                     ELSE _range
        /\ _offset' = IF raises = "" /\ j.stage = "read_offset"
                      THEN [_offset EXCEPT ![c] = outcome.val]
                      ELSE _offset
        /\ lastOp' = Step("return", c, state[c], raises # "")
        /\ UNCHANGED <<state, _stop, _current, _raw_current, loopVars, queryVars,
                       _exposition_time, fitVars>>

ClientWrite(t) ==
    /\ pc[t] = "call"
    /\ QueryWrite(t)
    /\ pc' = [pc EXCEPT ![t] = "wrote"]
    /\ lastOp' = Step("write", ChanOf(t), state[ChanOf(t)], FALSE)
    /\ UNCHANGED <<req, ret, chanVars, loopVars, queryVars, setVars, fitVars>>

ClientWriteFails(t) ==
    /\ pc[t] = "call"
    /\ QueryWriteFails(t)
    /\ ClientReturns(t, QueryRaise)

ClientRead(t, answers) ==
    /\ pc[t] = "wrote"
    /\ \E answer \in answers :
         LET outcome == CommandReturn(req[t], QueryResult(answer, req[t].expect))
         IN  /\ QueryRead(t, outcome)
             /\ ClientReturns(t, outcome)

ClientReadFails(t) ==
    /\ pc[t] = "wrote"
    /\ QueryRead(t, QueryRaise)
    /\ ClientReturns(t, QueryRaise)

\* what the client writes and what the device answers
SetVoltages == {300, MAX_VOLTAGE + 1}
SetRanges == {2, 6}
SetOffsets == {50, MAX_OFFSET, MAX_OFFSET + 1}
SetTimes == {Seconds(2, 0)}
SetAnswers == {Timeout, <<ACK>>, Line(Ascii(1)), Line(Ascii(3))}

(* -------------------------- specifications ----------------------------- *)
InitRanges == {0}

\* both devices after init_device(), no measurement thread, no caller inside a command
InitDevices ==
    /\ lock = NoOwner
    /\ wire = <<>>
    /\ hostState = "ON"
    /\ pc = [t \in Threads |-> IF t \in LoopThreads THEN "none" ELSE "idle"]
    /\ req = [t \in Threads |-> NoReq]
    /\ ret = [t \in Callers \cup Clients |-> None]
    /\ state = [c \in Channels |-> "ON"]
    /\ _stop = [c \in Channels |-> FALSE]
    /\ _current = [c \in Channels |-> FracInt(0)]
    /\ _raw_current = [c \in Channels |-> FracInt(0)]
    /\ _range \in [Channels -> InitRanges]
    /\ result = [t \in LoopThreads |-> FracInt(0)]
    /\ result_raw = [t \in LoopThreads |-> 0]
    /\ cycles = [t \in LoopThreads |-> 0]
    /\ got = [t \in LoopThreads |-> <<>>]
    /\ stopped = [t \in LoopThreads |-> FALSE]
    /\ lastOp = Step("init", address, "", FALSE)
    /\ _high_voltage = [c \in Channels |-> 0]
    /\ _offset = [c \in Channels |-> 0]
    /\ _exposition_time = [c \in Channels |-> ZeroTime]
    /\ job = [c \in Channels |-> NoJob]
    /\ elapsed = [t \in LoopThreads |-> 0]

NoFit == [done |-> FALSE, volt |-> 0, volt2 |-> 0, offs |-> 0, offs2 |-> 0, time |-> ZeroTime]

Init ==
    /\ InitDevices
    /\ fitArg = [v |-> 0, t |-> ZeroTime]
    /\ fitRes = NoFit
    /\ qStream = <<>>
    /\ qExpect = FALSE
    /\ qResult = Pending

\* one channel, its commands and its measurement threads
Next ==
    \/ \E c \in Channels : start(c, MaxLoops)
    \/ \E c \in Channels : stop(c)
    \/ \E c \in Channels : ReadSetting(c)
    \/ \E c \in Channels : ReadMeasured(c)
    \/ \E t \in LoopThreads : LoopBegin(t)
    \/ \E t \in LoopThreads : LoopExit(t)
    \/ \E t \in LoopThreads : LoopMeasure(t, MaxCycles)
    \/ \E t \in LoopThreads : LoopWrite(t)
    \/ \E t \in LoopThreads : LoopWriteFails(t)
    \/ \E t \in LoopThreads : LoopRead(t, SpecAnswers)
    \/ \E t \in LoopThreads : LoopReadFails(t)

Spec == Init /\ [][Next]_vars

\* one channel with a single measurement thread at a time
NextAvg ==
    \/ \E c \in Channels : start(c, 1)
    \/ \E c \in Channels : stop(c)
    \/ \E t \in AvgThreads : LoopBegin(t)
    \/ \E t \in AvgThreads : LoopExit(t)
    \/ \E t \in AvgThreads : LoopMeasure(t, AvgCycles)
    \/ \E t \in AvgThreads : LoopWrite(t)
    \/ \E t \in AvgThreads : LoopWriteFails(t)
    \/ \E t \in AvgThreads : LoopRead(t, AvgAnswers)
    \/ \E t \in AvgThreads : LoopReadFails(t)

SpecAvg == Init /\ [][NextAvg]_vars

\* concurrent callers of the host's commands
NextBus ==
    \/ \E t \in Callers : CallerInvoke(t)
    \/ \E t \in Callers : CallerWrite(t)
    \/ \E t \in Callers : CallerWriteFails(t)
    \/ \E t \in Callers : CallerRead(t, BusAnswers)
    \/ \E t \in Callers : CallerReadFails(t)

SpecBus == Init /\ [][NextBus]_vars

\* query() applied to every short byte stream
InitQuery ==
    /\ InitDevices
    /\ fitArg = [v |-> 0, t |-> ZeroTime]
    /\ fitRes = NoFit
    /\ qStream \in Streams
    /\ qExpect \in BOOLEAN
    /\ qResult = Pending

NextQuery == ApplyQuery

SpecQuery == InitQuery /\ [][NextQuery]_vars

(* ------------------------------ claims --------------------------------- *)
InExchange == {t \in Threads : pc[t] = "wrote"}

\* C1: at most one query is between its command write and the end of its
\* response read: the wire never holds a second command before the response to
\* the first is read, and the thread that reads is the one that wrote.
C1_ExclusiveExchange ==
    /\ Cardinality(InExchange) <= 1
    /\ Len(wire) <= 1
    /\ \A t \in InExchange : wire # <<>> /\ wire[1].by = t /\ lock = t

\* a caller is inside its exchange while the other waits for the lock
C1_Witness ==
    \E t, u \in Callers : t # u /\ pc[t] = "wrote" /\ pc[u] = "call" /\ lock = t

\* C2: query() leaves the lock on every exit path (value, -1, exception):
\* the lock is held only by a thread inside its exchange, so it is free
\* whenever no query is executing.
C2_LockReleased ==
    /\ lock # NoOwner => lock \in InExchange
    /\ InExchange = {} => lock = NoOwner

\* a query has just raised after a serial failure and the lock is free
C2_Witness ==
    /\ lastOp.op = "return" /\ lastOp.err
    /\ hostState = "FAULT"
    /\ lock = NoOwner
    /\ \E t \in Callers : ret[t] = QueryRaise

\* C3: a channel never has two measurement loops running at once.
C3_OneLoopPerChannel ==
    \A c \in Channels : Cardinality({t \in LoopsOf(c) : Polling(t)}) <= 1

\* C4: start() in RUNNING or FAULT spawns no thread, raises and sets FAULT.
C4_StartRejected ==
    [][\A c \in Channels :
         (lastOp'.op = "start" /\ lastOp'.c = c /\ state[c] # "ON")
         => (pc' = pc /\ state'[c] = "FAULT" /\ lastOp'.err)]_vars

\* start() has just been rejected in RUNNING, while a loop was polling
C4_Witness ==
    /\ lastOp.op = "start" /\ lastOp.pre = "RUNNING" /\ lastOp.err
    /\ state[lastOp.c] = "FAULT"
    /\ \E t \in LoopsOf(lastOp.c) : Polling(t)

\* C5: a loop that was running when stop() was accepted issues no further
\* measure command, and the channel is ON when that loop ends.
C5_StoppedLoopMeasuresNoMore ==
    [][\A t \in LoopThreads :
         (stopped[t] /\ pc[t] = "while")
         => (pc'[t] # "call" /\ (pc'[t] = "none" => state'[ChanOf(t)] = "ON"))]_vars

\* C6: FAULT is absorbing.
C6_FaultAbsorbing ==
    [][\A c \in Channels : state[c] = "FAULT" => state'[c] = "FAULT"]_vars

\* C7: a serial failure inside a loop's measure call puts the channel in
\* FAULT, and the channel is never RUNNING without a live loop.
C7_SerialFailureFaults ==
    /\ lastOp.op = "DevFailed" => state[lastOp.c] = "FAULT"
    /\ \A c \in Channels :
         state[c] = "RUNNING" => \E t \in LoopsOf(c) : Alive(t)

RECURSIVE SumRaw(_)
SumRaw(h) == IF h = <<>> THEN 0 ELSE Head(h).raw + SumRaw(Tail(h))

Converted(h) == [k \in 1..Len(h) |-> ToAmperes(h[k].rng, h[k].raw)]

Middle(a) == SubSeq(a, 2, Len(a) - 1)

\* C10: query() returns -1 for a data answer shorter than 3 bytes, for a
\* no-data answer other than the single byte 0x06 and for an empty answer; 0
\* for the acknowledgement; the number spelled between the first and the last
\* byte for a data line.
C10_QueryContract ==
    qResult # Pending =>
      LET a == PortRead(qStream, qExpect)
      IN  /\ (qExpect /\ Len(a) < 3) => qResult = Value(-1)
          /\ (~qExpect /\ a # <<ACK>>) => qResult = Value(-1)
          /\ a = <<>> => qResult = Value(-1)
          /\ (~qExpect /\ a = <<ACK>>) => qResult = Value(0)
          /\ (qExpect /\ Len(a) >= 3 /\ \A k \in 1..Len(Middle(a)) : IsDigit(Middle(a)[k]))
             => (qResult.kind = "value" /\ Ascii(qResult.val) = Middle(a))

\* a data line of four bytes has been parsed to 12
C10_Witness ==
    /\ qExpect
    /\ qStream = <<ACK, DIGIT0 + 1, DIGIT0 + 2, LF>>
    /\ qResult = Value(12)

\* C11: no command with a channel id outside [0,15] is ever put on the wire
\* (and a host command given such an id changes nothing).
C11_InvalidAddressSendsNothing ==
    \A k \in 1..Len(wire) : ValidChannel(wire[k].addr)

\* C17: a loop that stop() aborted stores nan as the current.
C17_AbortedLoopStoresNaN ==
    [][\A t \in LoopThreads :
         (stopped[t] /\ pc[t] = "while" /\ pc'[t] = "none")
         => _current'[ChanOf(t)] = NaN]_vars

\* C18: a measure call answered with -1 puts the channel in FAULT, and a loop
\* that ends without any valid measurement leaves the channel in FAULT.
C18_ProtocolViolationFaults ==
    [][\A t \in LoopThreads :
         /\ (pc[t] = "wrote" /\ pc'[t] = "while" /\ got'[t] = got[t])
            => state'[ChanOf(t)] = "FAULT"
         /\ (pc[t] = "while" /\ pc'[t] = "none" /\ got[t] = <<>>)
            => state'[ChanOf(t)] = "FAULT"]_vars

(* ------------------ the fit functions on every input ------------------- *)
FitTimes == {Seconds(-1, 0), ZeroTime, Seconds(0, 1), MIN_EXPOSITION_TIME, Seconds(1, 0),
             MAX_EXPOSITION_TIME, Seconds(100000, 0), NaNTime, PlusInf, MinusInf}

InitFit ==
    /\ InitDevices
    /\ qStream = <<>>
    /\ qExpect = FALSE
    /\ qResult = Pending
    /\ fitArg \in [v : (MIN_VOLTAGE - FitSpan)..(MAX_VOLTAGE + FitSpan), t : FitTimes]
    /\ fitRes = NoFit

ApplyFit ==
    /\ ~fitRes.done
    /\ fitRes' = [done |-> TRUE,
                  volt |-> fit_voltage_range(fitArg.v),
                  volt2 |-> fit_voltage_range(fit_voltage_range(fitArg.v)),
                  offs |-> fit_offset_range(fitArg.v),
                  offs2 |-> fit_offset_range(fit_offset_range(fitArg.v)),
                  time |-> fit_exp_time_range(fitArg.t)]
    /\ UNCHANGED <<busVars, pc, req, ret, chanVars, loopVars, lastOp, queryVars,
                   setVars, fitArg>>

NextFit == ApplyFit

SpecFit == InitFit /\ [][NextFit]_vars

Clamped(v, lo, hi) == IF v < lo THEN lo ELSE IF v > hi THEN hi ELSE v

\* C13: fit_exp_time_range returns a non-positive or non-finite argument
\* unchanged and clamps every other into [1e-6, 86400].
C13_FitExpositionTime ==
    fitRes.done =>
      IF fitArg.t.kind # "num" \/ ~TimeLess(ZeroTime, fitArg.t)
      THEN fitRes.time = fitArg.t
      ELSE /\ ~TimeLess(fitRes.time, MIN_EXPOSITION_TIME)
           /\ ~TimeLess(MAX_EXPOSITION_TIME, fitRes.time)
           /\ (~TimeLess(fitArg.t, MIN_EXPOSITION_TIME)
               /\ ~TimeLess(MAX_EXPOSITION_TIME, fitArg.t)) => fitRes.time = fitArg.t

\* C19: fit_voltage_range and fit_offset_range are defined for every integer,
\* clamp into [0,1700] and [0,99], keep a value already inside, and applying
\* them twice gives what applying them once gives.
C19_FitIsIdempotentClamp ==
    fitRes.done =>
      /\ fitRes.volt = Clamped(fitArg.v, 0, 1700)
      /\ fitRes.offs = Clamped(fitArg.v, 0, 99)
      /\ fitRes.volt2 = fitRes.volt
      /\ fitRes.offs2 = fitRes.offs

\* an argument above both ranges and one below have been clamped
C19_Witness ==
    /\ fitRes.done
    /\ fitArg.v = 1703
    /\ fitRes.volt = 1700
    /\ fitRes.offs = 99

(* -------------------- the settings of one channel --------------------- *)
\* one channel, its client and a measurement thread that takes no measurement
NextSet ==
    \/ \E c \in Channels, v \in SetVoltages : set_high_voltage(c, v)
    \/ \E c \in Channels, r \in SetRanges : set_range(c, r)
    \/ \E c \in Channels, o \in SetOffsets : set_offset(c, o)
    \/ \E c \in Channels, e \in SetTimes : set_exposition_time(c, e)
    \/ \E c \in Channels : reset(c)
    \/ \E t \in Clients : ClientWrite(t)
    \/ \E t \in Clients : ClientWriteFails(t)
    \/ \E t \in Clients : ClientRead(t, SetAnswers)
    \/ \E t \in Clients : ClientReadFails(t)
    \/ \E c \in Channels : start(c, 1)
    \/ \E c \in Channels : stop(c)
    \/ \E t \in AvgThreads : LoopBegin(t)
    \/ \E t \in AvgThreads : LoopExit(t)

SpecSet == Init /\ [][NextSet]_vars

Settings(c) == <<_high_voltage[c], _range[c], _offset[c], _exposition_time[c]>>
SetterNames == {"high_voltage", "range", "offset", "exposition_time"}

\* C12: the settings change only in a write accepted in ON (or in what such a
\* write goes on to read back), a write is entered only in ON, and a write
\* attempted in RUNNING or FAULT changes no setting, sends nothing, raises
\* and sets FAULT.
C12_SettingsWrittenOnlyWhileOn ==
    [][\A c \in Channels :
         /\ (Settings(c)' # Settings(c)) =>
              \/ lastOp'.op \in SetterNames /\ state[c] = "ON"
              \/ lastOp'.op = "return" /\ job[c].op \in {"offset", "reset"}
         /\ (job[c].op = "" /\ job'[c].op # "") => state[c] = "ON"
         /\ (lastOp'.op \in SetterNames /\ state[c] # "ON") =>
              /\ Settings(c)' = Settings(c)
              /\ wire' = wire
              /\ req' = req
              /\ pc' = pc
              /\ lastOp'.err
              /\ state'[c] = "FAULT"]_vars

\* a write accepted in ON has set the voltage, a later one was refused in RUNNING
C12_Witness ==
    /\ lastOp.op = "high_voltage"
    /\ lastOp.pre = "RUNNING"
    /\ lastOp.err
    /\ state[address] = "FAULT"
    /\ _high_voltage[address] = 300

\* C14: the stored high_voltage is within [0,1700], the stored range ordinal
\* within [0,5] and the stored offset within [0,99] in every state.
C14_SettingsWithinLimits ==
    \A c \in Channels :
      /\ MIN_VOLTAGE <= _high_voltage[c] /\ _high_voltage[c] <= MAX_VOLTAGE
      /\ _range[c] \in 0..5
      /\ MIN_OFFSET <= _offset[c] /\ _offset[c] <= MAX_OFFSET

\* C16: reset() from ON calls the host's reset, then reads voltage, range and
\* offset in this order and stores each value read (the range less one), and
\* no step of it changes the state; from RUNNING or FAULT it sends nothing,
\* changes no setting, raises and sets FAULT.
C16_ResetOnlyFromOn ==
    [][\A c \in Channels :
         /\ (lastOp'.op = "reset" /\ state[c] = "ON") =>
              /\ req'[Client(c)] = host_reset(c)
              /\ pc'[Client(c)] = "call"
              /\ Settings(c)' = Settings(c)
              /\ state' = state
         /\ (lastOp'.op = "reset" /\ state[c] # "ON") =>
              /\ Settings(c)' = Settings(c)
              /\ wire' = wire
              /\ req' = req
              /\ pc' = pc
              /\ lastOp'.err
              /\ state'[c] = "FAULT"
         /\ (job[c].op = "reset" /\ lastOp'.op \in {"write", "return"}) =>
              state' = state
         /\ (job[c].op = "reset" /\ lastOp'.op = "write") =>
              wire'[Len(wire')].verb = req[Client(c)].verb
         /\ (job[c].op = "reset" /\ lastOp'.op = "return" /\ ~lastOp'.err) =>
              CASE job[c].stage = "reset" ->
                     /\ req[Client(c)].verb = "*RST"
                     /\ req'[Client(c)].verb = ":CONF:VOLT?"
                     /\ Settings(c)' = Settings(c)
                [] job[c].stage = "read_voltage" ->
                     /\ _high_voltage'[c] = ret'[Client(c)].val
                     /\ req'[Client(c)].verb = ":CONF:CURR:RANG?"
                [] job[c].stage = "read_range" ->
                     /\ _range'[c] = ret'[Client(c)].val - 1
                     /\ req'[Client(c)].verb = ":CONF:CURR:OFFS?"
                [] job[c].stage = "read_offset" ->
                     /\ _offset'[c] = ret'[Client(c)].val
                     /\ pc'[Client(c)] = "idle"]_vars

\* reset() has run to its end after a range was written: the device's answers
\* are the settings and the state is ON
C16_Witness ==
    /\ lastOp.op = "return"
    /\ ~lastOp.err
    /\ pc[Client(address)] = "idle"
    /\ Len(wire) = 0
    /\ Settings(address) = <<1, 0, 1, Seconds(2, 0)>>
    /\ state[address] = "ON"

\* C20: an accepted voltage write passes to the host, for the wire, the
\* voltage it has stored.
C20_StoredVoltageIsSent ==
    \A c \in Channels :
      (lastOp.op = "high_voltage" /\ ~lastOp.err) =>
        /\ req[Client(c)].send
        /\ req[Client(c)].verb = ":CONF:VOLT"
        /\ req[Client(c)].arg = _high_voltage[c]

(* ------------------ a measurement that is not disturbed ---------------- *)
LiveTimes == {Seconds(1, 0), Seconds(2, 0)}

\* one channel whose port answers every command or times out, with the
\* measurement thread scheduled and every exchange taking time
NextLive ==
    \/ \E c \in Channels : start(c, 1)
    \/ \E c \in Channels : stop(c)
    \/ \E c \in Channels, e \in LiveTimes : set_exposition_time(c, e)
    \/ \E t \in AvgThreads : LoopStep(t)

SpecLive == Init /\ [][NextLive]_vars /\ \A t \in AvgThreads : WF_vars(LoopStep(t))

C21_OffsetWrittenThenRead ==
    \A c \in Channels :
      (lastOp.op = "offset" /\ ~lastOp.err) =>
        /\ req[Client(c)].send
        /\ req[Client(c)].verb = ":CONF:CURR:OFFS"
        /\ req[Client(c)].arg = _offset[c]

\* C22: when measure() returns -1 inside the loop, the sum of the currents, the
\* raw sum, the cycle count, the stored results and the channel state are what
\* they were, and the loop is back at its while condition.
C22_SentinelSkipsIteration ==
    [][\A t \in AvgThreads :
         (pc[t] = "wrote" /\ lastOp'.op = "took" /\ got'[t] = got[t]) =>
           /\ result'[t] = result[t]
           /\ result_raw'[t] = result_raw[t]
           /\ cycles'[t] = cycles[t]
           /\ state' = state
           /\ _current' = _current
           /\ _raw_current' = _raw_current
           /\ pc'[t] = "while"]_vars

\* a running loop has just taken an answer and has no count: the answer was -1
C22_Witness ==
    \E t \in AvgThreads :
      /\ lastOp.op = "took"
      /\ pc[t] = "while"
      /\ got[t] = <<>>
      /\ cycles[t] = 0
      /\ result_raw[t] = 0
      /\ state[ChanOf(t)] = "RUNNING"

\* C23: range.write of ordinal r in [0,5] stores r and sends r + 1; a read of
\* the range stores the number on the wire less one; so a device that answers
\* the number written for the stored range leaves the stored range as it is.
C23_RangeOneBasedOnWire ==
    [][\A c \in Channels :
         /\ (lastOp'.op = "range" /\ ~lastOp'.err) =>
              /\ _range'[c] \in 0..5
              /\ req'[Client(c)].verb = ":CONF:CURR:RANG"
              /\ req'[Client(c)].arg = _range'[c] + 1
         /\ (job[c].stage = "write_range" /\ lastOp'.op = "write") =>
              wire'[Len(wire')].arg = _range[c] + 1
         /\ (job[c].stage = "read_range" /\ lastOp'.op = "return" /\ ~lastOp'.err) =>
              /\ _range'[c] = ret'[Client(c)].val - 1
              /\ (ret'[Client(c)].val = _range[c] + 1) => (_range'[c] = _range[c])]_vars

\* range 2 is stored, and reset() has just read 3 as the range
C23_Witness ==
    /\ lastOp.op = "return"
    /\ job[address] = [op |-> "reset", stage |-> "read_offset"]
    /\ ret[Client(address)] = Value(3)
    /\ _range[address] = 2

\* C24: stop() in ON leaves the state ON and the results as they are and only
\* sets _stop, so that a second stop() changes nothing; start() accepted in ON
\* clears _stop as it spawns the loop; stop() in FAULT raises and leaves FAULT.
C24_StopWhileOnIsHarmless ==
    [][\A c \in Channels :
         /\ (lastOp'.op = "stop" /\ state[c] = "ON") =>
              /\ state' = state
              /\ _current' = _current
              /\ _raw_current' = _raw_current
              /\ _range' = _range
              /\ pc' = pc
              /\ wire' = wire
              /\ _stop'[c]
              /\ ~lastOp'.err
         /\ (lastOp'.op = "stop" /\ state[c] = "ON" /\ _stop[c]) =>
              /\ _stop' = _stop
              /\ stopped' = stopped
         /\ (lastOp'.op = "start" /\ state[c] = "ON") =>
              /\ ~_stop'[c]
              /\ ~lastOp'.err
              /\ \E t \in LoopsOf(c) : pc[t] = "none" /\ pc'[t] = "spawned"
         /\ (lastOp'.op = "stop" /\ state[c] = "FAULT") =>
              /\ state'[c] = "FAULT"
              /\ lastOp'.err
              /\ _stop' = _stop
              /\ pc' = pc]_vars

\* stop() has been called in ON with no loop alive, after a measurement that
\* ended without a count: nan is still the current
C24_Witness ==
    /\ lastOp.op = "stop"
    /\ lastOp.pre = "ON"
    /\ ~lastOp.err
    /\ _stop[address]
    /\ state[address] = "ON"
    /\ \A t \in LoopThreads : pc[t] = "none"
    /\ _current[address] = NaN

\* C25: no setting of a channel changes in a step taken while a measurement
\* loop of the channel is inside its while loop.
C25_SettingsFixedWhileLoopActive ==
    [][\A c \in Channels :
         (\E t \in LoopsOf(c) : Polling(t)) => Settings(c)' = Settings(c)]_vars

====
